---- MODULE Spec2Model ----
(***************************************************************************)
(* The voice-call front end of Serenity-coach: the call state machine of   *)
(* src/src/App.tsx (startSession, the connection callbacks, startAudio,    *)
(* stopSession) together with the capture pipeline (AudioProcessor) and    *)
(* the playback pipeline (AudioPlayer) of src/src/audioUtils.ts.           *)
(*                                                                         *)
(* Every handler runs to completion on the event loop, so each handler,    *)
(* each continuation after an await and each host callback is one action.  *)
(* Time is counted in sample periods of the playback context; an audio     *)
(* fragment is represented by its decoded byte length.                     *)
(***************************************************************************)
EXTENDS Integers, Sequences, FiniteSets, TLC

\* ---------------------------------------------------------------- bounds
MaxSessions == 2      \* startSession invocations in one run
MaxClock == 1         \* ticks of a playback context's clock during a call
MaxScheduled == 1     \* buffers scheduled in one context during a call
PlayerMaxClock == 4   \* ticks of a playback context's clock, player alone
PlayerMaxScheduled == 3  \* buffers scheduled in one context, player alone
MaxFrames == 1        \* capture blocks emitted in one run
MaxRequests == 2      \* sentiment requests in flight
MaxLevel == 2         \* the mean of an analyser's frequency data
SampleDenominator == 10000  \* a sample is a multiple of 1 / SampleDenominator
SampleStride == 100   \* samples tried: multiples of the stride, and the
                      \* values next to them

Sessions == 1..MaxSessions

\* ------------------------------------------------------------- variables
VARIABLES
  \* React state of App (App.tsx 434-441)
  selectedAgent, isConnected, isRecording, status, transcript, sentiment,
  isAnalyzing,
  \* refs of App (App.tsx 446-448)
  audioProcessorRef, audioPlayerRef, sessionRef,
  \* one entry per startSession invocation
  pc, conn, closureStatus,
  \* sentiment requests in flight
  requests,
  \* AudioProcessor fields and the host objects they point to
  apContext, apStream, apProcessor, apAnalyser, ctxState, startPc, nodeCtx,
  connected, liveStreams,
  \* frames handed to each connection, and the number of blocks captured
  outbox, emitted,
  \* AudioPlayer fields and the host playback context
  nextStartTime, clock, scheduled, discarded,
  \* observers: the collaborator calls made by the last handler, the
  \* position reached on the happy path, the sessions that were
  \* connecting when stopSession ran in call state connecting, and the
  \* sentiment request that settled last
  calls, hp, stopAsked, settled,
  \* the frequency data each capture analyser holds and the last result of
  \* AudioProcessor.getVolume
  level, volume,
  \* one sample through the codec: the input, its two encoded bytes and the
  \* decoded value
  sample, pcm, decoded

appVars == <<selectedAgent, isConnected, isRecording, status, transcript,
             sentiment, isAnalyzing, audioProcessorRef, audioPlayerRef,
             sessionRef>>
sessVars == <<pc, conn, closureStatus>>
capVars == <<apContext, apStream, apProcessor, apAnalyser, ctxState, startPc,
             nodeCtx, connected, liveStreams>>
outVars == <<outbox, emitted>>
playVars == <<nextStartTime, clock, scheduled, discarded>>
obsVars == <<calls, hp, stopAsked, settled>>
unitVars == <<level, volume, sample, pcm, decoded>>
vars == <<appVars, sessVars, requests, capVars, outVars, playVars, obsVars,
          unitVars>>

\* ------------------------------------------------------------ data model
CallStates == {"idle", "ringing", "connecting", "listening", "speaking"}

\* inlineData.data of a part: 0 is an absent (or empty, falsy) fragment,
\* -1 a string that is not valid base64, n > 0 a fragment of n bytes.
NoData == 0
InvalidBase64 == 0 - 1

\* part.text: a tuple of characters, <<>> for absent (or empty, falsy).
NoText == <<>>

Part(data, text) == [data |-> data, text |-> text]
Message(parts, interrupted, turnComplete) ==
  [parts |-> parts, interrupted |-> interrupted, turnComplete |-> turnComplete]

\* ---------------------------------------------------------------- codec
\* A sample is the numerator n of the fraction n / SampleDenominator; the
\* samples tried reach from -2 to 2, so that clamping happens.  A decoded
\* sample is the numerator of a fraction over DecodeScale.
Samples ==
  {n \in (0 - 2 * SampleDenominator)..(2 * SampleDenominator) :
     n % SampleStride \in {0, 1, SampleStride - 1}}

NegativeScale == 32768
PositiveScale == 32767
DecodeScale == 32768

NoPcm == <<>>

\* Math.max(-1, Math.min(1, x))
Clamp(n) ==
  IF n < 0 - SampleDenominator THEN 0 - SampleDenominator
  ELSE IF n > SampleDenominator THEN SampleDenominator
  ELSE n

\* The integer part of a / b, as the conversion of setInt16 takes it.
TruncDiv(a, b) == IF a >= 0 THEN a \div b ELSE 0 - ((0 - a) \div b)

\* The conversion to a signed 16-bit integer wraps modulo 2^16.
ToInt16(v) == ((v + 32768) % 65536) - 32768

\* DataView.setInt16(offset, v, true): two bytes, the low one first.
Int16Bytes(v) == LET u == v % 65536 IN <<u % 256, u \div 256>>

floatTo16BitPCMUnclamped(n) ==
  LET scaled == IF n < 0 THEN n * NegativeScale ELSE n * PositiveScale
  IN  Int16Bytes(ToInt16(TruncDiv(scaled, SampleDenominator)))

floatTo16BitPCMSymmetric(n) ==
  Int16Bytes(ToInt16(TruncDiv(Clamp(n) * NegativeScale, SampleDenominator)))

\* AudioProcessor.floatTo16BitPCM, for one sample.
floatTo16BitPCM(n) ==
  LET s == Clamp(n)
      scaled == IF s < 0 THEN s * NegativeScale ELSE s * PositiveScale
  IN  Int16Bytes(ToInt16(TruncDiv(scaled, SampleDenominator)))

\* new Int16Array(bytes.buffer)[i], divided by 32768.0 in playChunk: the
\* numerator of the decoded sample.
Int16Of(bytes) ==
  LET u == bytes[1] + 256 * bytes[2] IN IF u >= 32768 THEN u - 65536 ELSE u

\* --------------------------------------------------------- AudioPlayer
\* The playback state as one value: the cursor, the buffers started in the
\* current context (in scheduling order, each with the clock reading taken
\* when it was scheduled), the clock of the current context, and what the
\* context closed last held: how many of its buffers were still unplayed,
\* and where its cursor stood.
Player(nst, sched, now, disc) ==
  [nextStartTime |-> nst, scheduled |-> sched, clock |-> now, discarded |-> disc]

\* new AudioPlayer(24000): a fresh context, nothing scheduled.
NoneDiscarded == [count |-> 0, cursor |-> 0]
NewPlayer == Player(0, <<>>, 0, NoneDiscarded)

\* playChunk throws before scheduling: atob rejects the string, Int16Array
\* rejects an odd byte length, createBuffer rejects a length of 0.
Undecodable(data) == data = InvalidBase64 \/ data = 0 \/ data % 2 = 1

\* pcmData.length: one 16-bit sample per two bytes.
SampleCount(data) == data \div 2

Unplayed(sched, now) == SelectSeq(sched, LAMBDA e : e.start + e.dur > now)

playChunkNoAdvance(p, data) ==
  LET currentTime == p.clock
      start == IF p.nextStartTime < currentTime THEN currentTime
               ELSE p.nextStartTime
  IN  [p EXCEPT !.scheduled = Append(@, [start |-> start,
                                         dur |-> SampleCount(data),
                                         at |-> currentTime]),
                !.nextStartTime = start]

playChunkStaleCursor(p, data) ==
  LET currentTime == p.clock
      start == p.nextStartTime
      duration == SampleCount(data)
  IN  [p EXCEPT !.scheduled = Append(@, [start |-> start, dur |-> duration,
                                         at |-> currentTime]),
                !.nextStartTime = start + duration]

\* AudioPlayer.playChunk on a decodable fragment.  (The guard on a null
\* context or analyser never holds: the constructor and stop set both.)
playChunk(p, data) ==
  LET currentTime == p.clock
      start == IF p.nextStartTime < currentTime THEN currentTime
               ELSE p.nextStartTime
      duration == SampleCount(data)
  IN  [p EXCEPT !.scheduled = Append(@, [start |-> start, dur |-> duration,
                                         at |-> currentTime]),
                !.nextStartTime = start + duration]

playerStopKeepsCursor(p) ==
  Player(p.nextStartTime, <<>>, 0,
         [count |-> Len(Unplayed(p.scheduled, p.clock)),
          cursor |-> p.nextStartTime])

\* AudioPlayer.stop: the context is closed and replaced by a new one, whose
\* clock starts at 0, and the cursor is reset.
playerStop(p) ==
  Player(0, <<>>, 0, [count |-> Len(Unplayed(p.scheduled, p.clock)),
                      cursor |-> p.nextStartTime])

ThePlayer == Player(nextStartTime, scheduled, clock, discarded)

SetPlayer(p) ==
  /\ nextStartTime' = p.nextStartTime
  /\ scheduled' = p.scheduled
  /\ clock' = p.clock
  /\ discarded' = p.discarded

\* ------------------------------------------------------ AudioProcessor
\* The host objects the processor's fields point to: the script-processor
\* nodes still connected, the input streams whose tracks are live, and the
\* state of each capture context.  Field 0 is null.
Capture(con, live, ctx) == [connected |-> con, liveStreams |-> live, ctxState |-> ctx]

TheCapture == Capture(connected, liveStreams, ctxState)

processorStopKeepsStream(c) ==
  Capture(c.connected \ {apProcessor},
          c.liveStreams,
          IF apContext # 0 THEN [c.ctxState EXCEPT ![apContext] = "closed"]
          ELSE c.ctxState)

\* AudioProcessor.stop: optional calls on the current fields only.
processorStop(c) ==
  Capture(c.connected \ {apProcessor},
          c.liveStreams \ {apStream},
          IF apContext # 0 THEN [c.ctxState EXCEPT ![apContext] = "closed"]
          ELSE c.ctxState)

SetCapture(c) ==
  /\ connected' = c.connected
  /\ liveStreams' = c.liveStreams
  /\ ctxState' = c.ctxState

\* onaudioprocess of node k can fire: the node is connected and the context
\* it was created in is running.
CanFire(k) == k \in connected /\ ctxState[nodeCtx[k]] = "running"

\* The microphone is held: some stream obtained from getUserMedia has a
\* live track.
MicHeld == liveStreams # {}

\* --------------------------------------------------------------- trim
IsSpace(c) == c = " "

RECURSIVE TrimLeft(_)
TrimLeft(t) == IF t # <<>> /\ IsSpace(Head(t)) THEN TrimLeft(Tail(t)) ELSE t

RECURSIVE TrimRight(_)
TrimRight(t) ==
  IF t # <<>> /\ IsSpace(t[Len(t)]) THEN TrimRight(SubSeq(t, 1, Len(t) - 1))
  ELSE t

trim(t) == TrimRight(TrimLeft(t))

\* ------------------------------------------------------ session control
\* The number the next startSession invocation gets.
NextSession == Cardinality({s \in Sessions : pc[s] # "unused"}) + 1

\* The Start Call button is rendered (otherwise End Call is).
StartCallVisible ==
  ~isConnected /\ status # "ringing" /\ status # "connecting"

\* session.close(): the socket starts closing; its close event comes later.
sessionClose(c, ref) ==
  IF ref # 0 /\ c[ref] = "open" THEN [c EXCEPT ![ref] = "closing"] ELSE c

\* The observer of the happy path: position k of session s, or <<0, 0>>.
OffPath == <<0, 0>>
Advance(k, s) == IF hp = <<k, s>> THEN <<k + 1, s>> ELSE OffPath

stopSessionKeepsHandle(connNow) ==
  /\ SetCapture(IF audioProcessorRef THEN processorStop(TheCapture)
                ELSE TheCapture)
  /\ SetPlayer(IF audioPlayerRef THEN playerStop(ThePlayer) ELSE ThePlayer)
  /\ conn' = connNow
  /\ isConnected' = FALSE
  /\ isRecording' = FALSE
  /\ status' = "idle"
  /\ calls' = (IF audioProcessorRef THEN <<"processor.stop">> ELSE <<>>)
              \o (IF audioPlayerRef THEN <<"player.stop">> ELSE <<>>)
  /\ stopAsked' = IF status = "connecting"
                  THEN stopAsked \cup {s \in Sessions : pc[s] = "connecting"}
                  ELSE stopAsked
  /\ UNCHANGED <<unitVars, transcript, sentiment, isAnalyzing,
                 audioProcessorRef, audioPlayerRef, sessionRef, pc,
                 closureStatus, requests, apContext, apStream, apProcessor,
                 apAnalyser, startPc, nodeCtx, outVars, settled>>

\* stopSession, entered with the connections in state connNow.
stopSession(connNow) ==
  /\ SetCapture(IF audioProcessorRef THEN processorStop(TheCapture)
                ELSE TheCapture)
  /\ SetPlayer(IF audioPlayerRef THEN playerStop(ThePlayer) ELSE ThePlayer)
  /\ conn' = sessionClose(connNow, sessionRef)
  /\ isConnected' = FALSE
  /\ isRecording' = FALSE
  /\ status' = "idle"
  /\ sessionRef' = 0
  /\ calls' = (IF audioProcessorRef THEN <<"processor.stop">> ELSE <<>>)
              \o (IF audioPlayerRef THEN <<"player.stop">> ELSE <<>>)
              \o (IF sessionRef # 0 THEN <<"session.close">> ELSE <<>>)
  /\ stopAsked' = IF status = "connecting"
                  THEN stopAsked \cup {s \in Sessions : pc[s] = "connecting"}
                  ELSE stopAsked
  /\ UNCHANGED <<unitVars, transcript, sentiment, isAnalyzing,
                 audioProcessorRef, audioPlayerRef, pc, closureStatus,
                 requests, apContext, apStream, apProcessor, apAnalyser,
                 startPc, nodeCtx, outVars, settled>>

\* CollectiveSelection's onSelect.
SelectAgent ==
  /\ ~selectedAgent
  /\ selectedAgent' = TRUE
  /\ UNCHANGED <<unitVars, isConnected, isRecording, status, transcript,
                 sentiment, isAnalyzing, audioProcessorRef, audioPlayerRef,
                 sessionRef, sessVars, requests, capVars, outVars, playVars,
                 obsVars>>

\* The Collective (back) button.
BackToCollective ==
  /\ selectedAgent
  /\ stopSession(conn)
  /\ selectedAgent' = FALSE
  /\ hp' = OffPath

\* The End Call button.
EndCall ==
  /\ selectedAgent
  /\ ~StartCallVisible
  /\ stopSession(conn)
  /\ hp' = Advance(5, hp[2])
  /\ UNCHANGED selectedAgent

\* startSession up to the ringing delay.
StartSession ==
  /\ selectedAgent
  /\ StartCallVisible
  /\ NextSession <= MaxSessions
  /\ status' = "ringing"
  /\ pc' = [pc EXCEPT ![NextSession] = "ringing"]
  /\ closureStatus' = [closureStatus EXCEPT ![NextSession] = status]
  /\ calls' = <<>>
  /\ hp' = IF status = "idle" THEN <<1, NextSession>> ELSE OffPath
  /\ UNCHANGED <<unitVars, stopAsked, settled, selectedAgent, isConnected,
                 isRecording, transcript, sentiment, isAnalyzing,
                 audioProcessorRef, audioPlayerRef, sessionRef, conn,
                 requests, capVars, outVars, playVars>>

\* The ringing delay of session s elapses: startSession goes on to connect.
RingElapsed(s) ==
  /\ pc[s] = "ringing"
  /\ status' = "connecting"
  /\ pc' = [pc EXCEPT ![s] = "connecting"]
  /\ conn' = [conn EXCEPT ![s] = "connecting"]
  /\ calls' = <<"live.connect">>
  /\ hp' = Advance(1, s)
  /\ UNCHANGED <<unitVars, stopAsked, settled, selectedAgent, isConnected,
                 isRecording, transcript, sentiment, isAnalyzing,
                 audioProcessorRef, audioPlayerRef, sessionRef, closureStatus,
                 requests, capVars, outVars, playVars>>

\* The remote accepts session s: onopen (with startAudio up to its await on
\* the input device), then the continuation of startSession that stores
\* the handle.  connect resolves as soon as onopen has returned, so the
\* continuation runs as a microtask of the same turn of the event loop and
\* no other handler runs in between.
OnOpen(s) ==
  /\ pc[s] = "connecting"
  /\ conn[s] = "connecting"
  /\ isConnected' = TRUE
  /\ status' = "listening"
  /\ audioProcessorRef' = TRUE
  /\ audioPlayerRef' = TRUE
  /\ SetPlayer(IF audioPlayerRef THEN ThePlayer ELSE NewPlayer)
  /\ apContext' = s
  /\ ctxState' = [ctxState EXCEPT ![s] = "running"]
  /\ startPc' = [startPc EXCEPT ![s] = "awaiting"]
  /\ conn' = [conn EXCEPT ![s] = "open"]
  /\ pc' = [pc EXCEPT ![s] = "established"]
  /\ sessionRef' = s
  /\ calls' = <<"processor.start">>
  /\ hp' = Advance(2, s)
  /\ stopAsked' = stopAsked \ {s}
  /\ UNCHANGED <<unitVars, selectedAgent, isRecording, transcript, sentiment,
                 isAnalyzing, closureStatus, requests, apStream, apProcessor,
                 apAnalyser,
                 nodeCtx, connected, liveStreams, outVars, settled>>

\* The connection attempt of session s is rejected: the catch block.
ConnectReject(s) ==
  /\ pc[s] = "connecting"
  /\ conn[s] # "open"
  /\ status' = "idle"
  /\ pc' = [pc EXCEPT ![s] = "failed"]
  /\ conn' = [conn EXCEPT ![s] = IF @ = "connecting" THEN "closed" ELSE @]
  /\ calls' = <<>>
  /\ hp' = OffPath
  /\ stopAsked' = stopAsked \ {s}
  /\ UNCHANGED <<unitVars, selectedAgent, isConnected, isRecording, transcript,
                 sentiment, isAnalyzing, audioProcessorRef, audioPlayerRef,
                 sessionRef, closureStatus, requests, capVars, outVars,
                 playVars, settled>>

\* An error event on the socket of session s; its close event follows.
OnError(s) ==
  /\ conn[s] \in {"connecting", "open"}
  /\ stopSession([conn EXCEPT ![s] = "closing"])
  /\ hp' = OffPath
  /\ UNCHANGED selectedAgent

\* The close event of the socket of session s.
OnClose(s) ==
  /\ conn[s] \in {"open", "closing"}
  /\ stopSession([conn EXCEPT ![s] = "closed"])
  /\ hp' = OffPath
  /\ UNCHANGED selectedAgent

\* ------------------------------------------------------------ onmessage
\* message.serverContent?.modelTurn?.parts?.[0]?.inlineData?.data
Base64Audio(m) == IF m.parts # <<>> THEN m.parts[1].data ELSE NoData

\* The texts the part loop displays, in part order: trimmed and non-empty.
RECURSIVE Shown(_)
Shown(parts) ==
  IF parts = <<>> THEN <<>>
  ELSE LET text == trim(Head(parts).text)
       IN  (IF text # <<>> THEN <<text>> ELSE <<>>) \o Shown(Tail(parts))

\* analyzeSentiment returns before issuing a request for a short text.
MinSentimentLength == 5
AnalyzedAll(texts) == texts

Analyzed(texts) == SelectSeq(texts, LAMBDA t : Len(t) >= MinSentimentLength)

statusIgnoringTurnComplete(st, hasAudio, threw, interrupted, turnComplete) ==
  IF threw THEN "speaking"
  ELSE IF interrupted THEN "listening"
  ELSE IF hasAudio THEN "speaking"
  ELSE st

\* The call state the handler leaves: the last setStatus wins; a throw of
\* playChunk ends the handler right after setStatus('speaking').
statusAfterMessage(st, hasAudio, threw, interrupted, turnComplete) ==
  IF threw THEN "speaking"
  ELSE IF interrupted \/ turnComplete THEN "listening"
  ELSE IF hasAudio THEN "speaking"
  ELSE st

playerAfterMessageStopsOnThrow(p, data, threw, interrupted) ==
  LET played == IF data # NoData /\ audioPlayerRef /\ ~threw
                THEN playChunk(p, data) ELSE p
  IN  IF threw \/ (interrupted /\ audioPlayerRef) THEN playerStop(played)
      ELSE played

\* The playback state the handler leaves.
playerAfterMessage(p, data, threw, interrupted) ==
  LET played == IF data # NoData /\ audioPlayerRef /\ ~threw
                THEN playChunk(p, data) ELSE p
  IN  IF interrupted /\ audioPlayerRef /\ ~threw THEN playerStop(played)
      ELSE played

AudioOnly(m) ==
  /\ Len(m.parts) = 1
  /\ m.parts[1].data # NoData
  /\ m.parts[1].text = NoText
  /\ ~m.interrupted
  /\ ~m.turnComplete

TurnCompleteOnly(m) == m.parts = <<>> /\ ~m.interrupted /\ m.turnComplete

\* onmessage of session s for message m.
OnMessage(s, m) ==
  /\ conn[s] = "open"
  /\ LET base64Audio == Base64Audio(m)
         hasAudio == base64Audio # NoData
         threw == hasAudio /\ audioPlayerRef /\ Undecodable(base64Audio)
         shown == IF ~threw /\ (closureStatus[s] = "listening" \/ ~hasAudio)
                  THEN Shown(m.parts) ELSE <<>>
     IN  /\ hasAudio /\ ~threw => Len(scheduled) < MaxScheduled
         /\ Len(requests) + Len(Analyzed(shown)) <= MaxRequests
         /\ status' = statusAfterMessage(status, hasAudio, threw,
                                         m.interrupted, m.turnComplete)
         /\ SetPlayer(playerAfterMessage(ThePlayer, base64Audio, threw,
                                         m.interrupted))
         /\ transcript' = IF shown = <<>> THEN transcript
                          ELSE shown[Len(shown)]
         /\ requests' = requests \o Analyzed(shown)
         /\ isAnalyzing' = IF Analyzed(shown) # <<>> THEN TRUE
                           ELSE isAnalyzing
         /\ calls' = (IF hasAudio /\ audioPlayerRef
                      THEN <<"player.playChunk">> ELSE <<>>)
                     \o (IF m.interrupted /\ audioPlayerRef /\ ~threw
                         THEN <<"player.stop">> ELSE <<>>)
         /\ hp' = IF AudioOnly(m) THEN Advance(3, s)
                  ELSE IF TurnCompleteOnly(m) THEN Advance(4, s)
                  ELSE OffPath
  /\ UNCHANGED <<unitVars, stopAsked, settled, selectedAgent, isConnected,
                 isRecording, sentiment, audioProcessorRef, audioPlayerRef,
                 sessionRef, sessVars, capVars, outVars>>

\* ---------------------------------------------------- analyzeSentiment
\* What a sentiment request comes back with: the call rejects, or the body
\* is not JSON, or it parses to an object whose label is absent or empty
\* (NoLabel), or to one with a label.
NoLabel == ""
Outcome(kind, label) == [kind |-> kind, label |-> label]

\* generateContent: the schema asks for a string and only describes its
\* values, so the label is whatever the remote writes; an empty
\* response.text is parsed as "{}".
ServiceLabels == {"Positive", "Negative", "Neutral", "Mixed"}
GenerateOutcomes ==
  {Outcome("parsed", l) : l \in ServiceLabels \cup {NoLabel}}
    \cup {Outcome(k, NoLabel) : k \in {"rejected", "unparsable"}}

\* POST /api/sentiment: fetch rejects, or the route answers 500 (or 400),
\* or 200 with one of its three labels; a body that is not JSON makes
\* response.json() reject.
RouteLabels == {"Positive", "Negative", "Neutral"}
FetchOutcomes ==
  {Outcome("parsed", l) : l \in RouteLabels}
    \cup {Outcome(k, NoLabel) : k \in {"rejected", "notok", "unparsable"}}

Failed(r) == r.kind # "parsed" \/ r.label = NoLabel

sentimentAfterGenerateUnchecked(cur, r) ==
  IF r.kind = "parsed" THEN r.label ELSE cur

sentimentAfterGenerateFirstOnly(cur, r) ==
  IF r.kind = "parsed" /\ r.label # NoLabel /\ cur = "null" THEN r.label
  ELSE cur

\* The sentiment analyzeSentiment leaves (App.tsx 570-604): set only when
\* the parsed result has a truthy label.
sentimentAfterGenerate(cur, r) ==
  IF r.kind = "parsed" /\ r.label # NoLabel THEN r.label ELSE cur

\* The sentiment the fetch variant leaves (App.tsx 103-122): data.label is
\* stored as it is whenever the response is ok and parses.
sentimentAfterFetch(cur, r) == IF r.kind = "parsed" THEN r.label ELSE cur

Remove(q, i) == SubSeq(q, 1, i - 1) \o SubSeq(q, i + 1, Len(q))

\* The observer of the request that settled last: whether it was issued
\* after one that is still in flight, and whether it failed.
NoneSettled == [overtook |-> FALSE, failed |-> FALSE, any |-> FALSE]
Settled(i, r) == [overtook |-> i > 1, failed |-> Failed(r), any |-> TRUE]

\* The rest of analyzeSentiment once request i has settled with outcome r:
\* try, catch and finally.
settle(i, after) ==
  /\ i \in 1..Len(requests)
  /\ sentiment' = after
  /\ isAnalyzing' = FALSE
  /\ requests' = Remove(requests, i)
  /\ UNCHANGED <<unitVars, selectedAgent, isConnected, isRecording, status,
                 transcript, audioProcessorRef, audioPlayerRef, sessionRef,
                 sessVars, capVars, outVars, playVars, calls, hp, stopAsked>>

AnalyzeSettled(i, r) ==
  /\ settle(i, sentimentAfterGenerate(sentiment, r))
  /\ settled' = Settled(i, r)

FetchSettled(i, r) ==
  /\ settle(i, sentimentAfterFetch(sentiment, r))
  /\ settled' = Settled(i, r)

\* ------------------------------------------------------------- capture
\* getUserMedia of the start call made by session k resolves: the rest of
\* AudioProcessor.start, then the rest of startAudio.  The nodes are made
\* in whatever context the field names by now, closed or not, and the
\* fields are overwritten: what they named before stays as it was.
GetUserMediaResolve(k) ==
  /\ startPc[k] = "awaiting"
  /\ startPc' = [startPc EXCEPT ![k] = "done"]
  /\ apStream' = k
  /\ liveStreams' = liveStreams \cup {k}
  /\ nodeCtx' = [nodeCtx EXCEPT ![k] = apContext]
  /\ apAnalyser' = k
  /\ apProcessor' = k
  /\ connected' = connected \cup {k}
  /\ isRecording' = TRUE
  /\ UNCHANGED <<unitVars, selectedAgent, isConnected, status, transcript,
                 sentiment, isAnalyzing, audioProcessorRef, audioPlayerRef,
                 sessionRef, sessVars, requests, apContext, ctxState, outVars,
                 playVars, obsVars>>

\* getUserMedia rejects (no device, permission denied): start rejects, and
\* so does the promise of startAudio, which nothing awaits.
GetUserMediaReject(k) ==
  /\ startPc[k] = "awaiting"
  /\ startPc' = [startPc EXCEPT ![k] = "rejected"]
  /\ UNCHANGED <<unitVars, appVars, sessVars, requests, apContext, apStream,
                 apProcessor, apAnalyser, ctxState, nodeCtx, connected,
                 liveStreams, outVars, playVars, obsVars>>

\* sendRealtimeInput on a socket that is not open delivers nothing.
Delivered == sessionRef # 0 /\ conn[sessionRef] = "open"

\* onaudioprocess of node k: one block is encoded and handed to the
\* callback startAudio passed to start.
EmitFrame(k) ==
  /\ CanFire(k)
  /\ emitted < MaxFrames
  /\ emitted' = emitted + 1
  /\ outbox' = IF Delivered
               THEN [outbox EXCEPT ![sessionRef] = Append(@, emitted + 1)]
               ELSE outbox
  /\ UNCHANGED <<unitVars, appVars, sessVars, requests, capVars, playVars,
                 obsVars>>

\* ------------------------------------------------------------ playback
\* The clock of the playback context advances.
Tick(limit) ==
  /\ audioPlayerRef
  /\ clock < limit
  /\ clock' = clock + 1
  /\ UNCHANGED <<unitVars, appVars, sessVars, requests, capVars, outVars,
                 nextStartTime, scheduled, discarded, obsVars>>

\* ------------------------------------------------------- specification
\* The fragments and messages the remote sends during a call.
SessionData == {1, 2}
SessionParts == {<<>>} \cup {<<Part(d, NoText)>> : d \in SessionData}
SessionMessages ==
  {Message(ps, i, t) : ps \in SessionParts, i \in BOOLEAN, t \in BOOLEAN}

\* The state after construction; the player exists once startAudio (or, for
\* the player alone, its owner) has constructed it.
Constructed(hasPlayer) ==
  /\ selectedAgent = FALSE
  /\ isConnected = FALSE
  /\ isRecording = FALSE
  /\ status = "idle"
  /\ transcript = <<>>
  /\ sentiment = "null"
  /\ isAnalyzing = FALSE
  /\ audioProcessorRef = FALSE
  /\ audioPlayerRef = hasPlayer
  /\ sessionRef = 0
  /\ pc = [s \in Sessions |-> "unused"]
  /\ conn = [s \in Sessions |-> "none"]
  /\ closureStatus = [s \in Sessions |-> "idle"]
  /\ requests = <<>>
  /\ apContext = 0
  /\ apStream = 0
  /\ apProcessor = 0
  /\ apAnalyser = 0
  /\ ctxState = [s \in Sessions |-> "none"]
  /\ startPc = [s \in Sessions |-> "none"]
  /\ nodeCtx = [s \in Sessions |-> 0]
  /\ connected = {}
  /\ liveStreams = {}
  /\ outbox = [s \in Sessions |-> <<>>]
  /\ emitted = 0
  /\ nextStartTime = 0
  /\ clock = 0
  /\ scheduled = <<>>
  /\ discarded = NoneDiscarded
  /\ calls = <<>>
  /\ hp = OffPath
  /\ stopAsked = {}
  /\ settled = NoneSettled
  /\ level = [k \in Sessions |-> 0]
  /\ volume = 0
  /\ pcm = NoPcm
  /\ decoded = <<>>

Init == Constructed(FALSE) /\ sample = 0

Next ==
  \/ SelectAgent
  \/ BackToCollective
  \/ StartSession
  \/ EndCall
  \/ \E s \in Sessions : RingElapsed(s)
  \/ \E s \in Sessions : OnOpen(s)
  \/ \E s \in Sessions : ConnectReject(s)
  \/ \E s \in Sessions : OnError(s)
  \/ \E s \in Sessions : OnClose(s)
  \/ \E s \in Sessions : \E m \in SessionMessages : OnMessage(s, m)
  \/ \E k \in Sessions : GetUserMediaResolve(k)
  \/ \E k \in Sessions : GetUserMediaReject(k)
  \/ \E k \in Sessions : EmitFrame(k)
  \/ Tick(MaxClock)

Spec == Init /\ [][Next]_vars

\* ----------------------------------------------- the player on its own
\* The fragments handed to playChunk: undecodable ones, and one and two
\* samples.
PlayerData == {InvalidBase64, 1, 2, 4}

\* A call of playChunk; a throw leaves the player as it was.
PlayChunkCall(data) ==
  /\ audioPlayerRef
  /\ ~Undecodable(data) => Len(scheduled) < PlayerMaxScheduled
  /\ SetPlayer(IF Undecodable(data) THEN ThePlayer
               ELSE playChunk(ThePlayer, data))
  /\ calls' = <<"player.playChunk">>
  /\ UNCHANGED <<unitVars, appVars, sessVars, requests, capVars, outVars, hp,
                 stopAsked, settled>>

\* A call of stop.
StopCall ==
  /\ audioPlayerRef
  /\ SetPlayer(playerStop(ThePlayer))
  /\ calls' = <<"player.stop">>
  /\ UNCHANGED <<unitVars, appVars, sessVars, requests, capVars, outVars, hp,
                 stopAsked, settled>>

InitPlayer == Constructed(TRUE) /\ sample = 0

NextPlayer ==
  \/ \E data \in PlayerData : PlayChunkCall(data)
  \/ StopCall
  \/ Tick(PlayerMaxClock)

SpecPlayer == InitPlayer /\ [][NextPlayer]_vars

\* ------------------------------------------- the processor on its own
\* new AudioProcessor(16000)
NewProcessor ==
  /\ ~audioProcessorRef
  /\ audioProcessorRef' = TRUE
  /\ UNCHANGED <<selectedAgent, isConnected, isRecording, status, transcript,
                 sentiment, isAnalyzing, audioPlayerRef, sessionRef,
                 sessVars, requests, capVars, outVars, playVars, obsVars,
                 unitVars>>

\* AudioProcessor.start up to its await on the input device: call k gets a
\* new context.
ProcessorStart(k) ==
  /\ audioProcessorRef
  /\ startPc[k] = "none"
  /\ \A j \in Sessions : j < k => startPc[j] # "none"
  /\ apContext' = k
  /\ ctxState' = [ctxState EXCEPT ![k] = "running"]
  /\ startPc' = [startPc EXCEPT ![k] = "awaiting"]
  /\ calls' = <<"processor.start">>
  /\ UNCHANGED <<appVars, sessVars, requests, apStream, apProcessor,
                 apAnalyser, nodeCtx, connected, liveStreams, outVars,
                 playVars, hp, stopAsked, settled, unitVars>>

\* A call of AudioProcessor.stop.  close() on a context that is closed
\* already returns a rejected promise, which stop drops; nothing is thrown.
ProcessorStopCall ==
  /\ audioProcessorRef
  /\ SetCapture(processorStop(TheCapture))
  /\ calls' = <<"processor.stop">>
              \o (IF apContext # 0 /\ ctxState[apContext] = "closed"
                  THEN <<"close.rejected">> ELSE <<>>)
  /\ UNCHANGED <<appVars, sessVars, requests, apContext, apStream,
                 apProcessor, apAnalyser, startPc, nodeCtx, outVars,
                 playVars, hp, stopAsked, settled, unitVars>>

\* The analyser made by start call k takes in new input while its graph
\* runs; what it holds stays when the graph is taken apart and the
\* context closed.
Hear(k, l) ==
  /\ CanFire(k)
  /\ level[k] # l
  /\ level' = [level EXCEPT ![k] = l]
  /\ UNCHANGED <<appVars, sessVars, requests, capVars, outVars, playVars,
                 obsVars, volume, sample, pcm, decoded>>

\* AudioProcessor.getVolume: 0 without an analyser, else the mean of the
\* analyser's frequency data.
getVolume == IF apAnalyser = 0 THEN 0 ELSE level[apAnalyser]

GetVolumeCall ==
  /\ audioProcessorRef
  /\ volume' = getVolume
  /\ calls' = <<"processor.getVolume">>
  /\ UNCHANGED <<appVars, sessVars, requests, capVars, outVars, playVars,
                 hp, stopAsked, settled, level, sample, pcm, decoded>>

NextCapture ==
  \/ NewProcessor
  \/ \E k \in Sessions : ProcessorStart(k)
  \/ \E k \in Sessions : GetUserMediaResolve(k)
  \/ \E k \in Sessions : GetUserMediaReject(k)
  \/ \E k \in Sessions : EmitFrame(k)
  \/ \E k \in Sessions : \E l \in 0..MaxLevel : Hear(k, l)
  \/ ProcessorStopCall
  \/ GetVolumeCall

SpecCapture == Init /\ [][NextCapture]_vars

\* ----------------------------------------------------- the codec alone
\* One sample is encoded as onaudioprocess encodes it and decoded as
\* playChunk decodes it.
EncodeSample ==
  /\ pcm = NoPcm
  /\ pcm' = floatTo16BitPCM(sample)
  /\ UNCHANGED <<appVars, sessVars, requests, capVars, outVars, playVars,
                 obsVars, level, volume, sample, decoded>>

DecodeSample ==
  /\ pcm # NoPcm
  /\ decoded = <<>>
  /\ decoded' = <<Int16Of(pcm)>>
  /\ UNCHANGED <<appVars, sessVars, requests, capVars, outVars, playVars,
                 obsVars, level, volume, sample, pcm>>

InitCodec == Constructed(FALSE) /\ sample \in Samples

NextCodec == EncodeSample \/ DecodeSample

SpecCodec == InitCodec /\ [][NextCodec]_vars

\* --------------------------------------------- a call that carries text
\* One call, from Start Call on, whose messages carry text, with the
\* sentiment requests it issues settling in any order: AnalyzeSettled is
\* the continuation in the component with the ringing state, FetchSettled
\* the one in the earlier copy of the component, which asks the server.
\* The texts the remote sends: shorter than the minimum, padded with
\* spaces, blank, and one that starts with a language tag.  A message has
\* one part, or two texts, or two audio fragments.
TextShort == <<"o", "k">>
TextPadded == <<" ", "h", "e", "l", "l", "o", " ">>
TextBlank == <<" ">>
TextTagged ==
  <<"[", "L", "A", "N", "G", ":", "E", "S", "]", " ", "H", "o", "l", "a", "!">>
Texts == {TextShort, TextPadded, TextBlank, TextTagged}

TextParts ==
  {<<Part(NoData, t)>> : t \in Texts}
    \cup {<<Part(2, TextPadded)>>,
          <<Part(NoData, TextPadded), Part(NoData, TextTagged)>>,
          <<Part(2, NoText), Part(2, NoText)>>}
TextMessages == {Message(ps, FALSE, t) : ps \in TextParts, t \in BOOLEAN}

NextText ==
  \/ SelectAgent
  \/ StartSession
  \/ \E s \in Sessions : RingElapsed(s)
  \/ \E s \in Sessions : OnOpen(s)
  \/ \E s \in Sessions : \E m \in TextMessages : OnMessage(s, m)
  \/ \E k \in Sessions : GetUserMediaResolve(k)
  \/ \E i \in 1..MaxRequests : \E r \in GenerateOutcomes : AnalyzeSettled(i, r)
  \/ \E i \in 1..MaxRequests : \E r \in FetchOutcomes : FetchSettled(i, r)

SpecText == Init /\ [][NextText]_vars

\* ================================================================ claims
Range(f) == {f[i] : i \in DOMAIN f}
Count(x, f) == Cardinality({i \in DOMAIN f : f[i] = x})
Connected == {"listening", "speaking"}
InCall == {"ringing", "connecting", "listening", "speaking"}

\* C1: on the happy path the call state is ringing after startSession in
\* idle, connecting after the ringing delay, listening after the remote
\* accepts, speaking after an audio fragment, listening after turn
\* complete and idle after endSession; no other state is visited.
HappyPath ==
  /\ hp[1] = 1 => status = "ringing"
  /\ hp[1] = 2 => status = "connecting"
  /\ hp[1] = 3 => status = "listening"
  /\ hp[1] = 4 => status = "speaking"
  /\ hp[1] = 5 => status = "listening"
  /\ hp[1] = 6 => status = "idle"

HappyPathWalked == hp[1] = 6 /\ status = "idle"

\* C2: when stopSession ran while session s was connecting and the remote
\* then accepts s, the late success is torn down at once: the state is
\* idle, the connection is not open, no handle is kept and capture is not
\* started.
LateSuccessTornDown ==
  [][\A s \in Sessions :
       OnOpen(s) /\ s \in stopAsked =>
         /\ status' = "idle"
         /\ conn'[s] # "open"
         /\ sessionRef' = 0
         /\ startPc'[s] # "awaiting"]_vars

\* C3: stopSession in ringing, connecting, listening or speaking leaves the
\* state idle and the handle null, closes the connection the handle named,
\* and calls stop on the capture and the playback pipeline.
StopSessionStep ==
  \/ EndCall
  \/ BackToCollective
  \/ \E s \in Sessions : OnError(s) \/ OnClose(s)

StopSessionTearsDown ==
  [][StopSessionStep /\ status \in InCall =>
       /\ status' = "idle"
       /\ sessionRef' = 0
       /\ sessionRef # 0 => conn'[sessionRef] \in {"closing", "closed"}
       /\ status \in Connected => audioProcessorRef /\ audioPlayerRef
       /\ audioProcessorRef =>
            /\ Count("processor.stop", calls') = 1
            /\ apStream \notin liveStreams'
            /\ apProcessor \notin connected'
            /\ apContext # 0 => ctxState'[apContext] = "closed"
       /\ audioPlayerRef =>
            /\ Count("player.stop", calls') = 1
            /\ scheduled' = <<>>
            /\ nextStartTime' = 0]_vars

StoppedWhilePlaying ==
  /\ status = "idle"
  /\ sessionRef = 0
  /\ calls = <<"processor.stop", "player.stop", "session.close">>
  /\ discarded.count > 0
  /\ liveStreams = {}
  /\ \E s \in Sessions : conn[s] = "closing" /\ startPc[s] = "done"

\* C4: the buffers scheduled in one context since its creation (no stop
\* in between) start at non-decreasing times, and each starts no earlier
\* than the end of the one before it.
NoOverlap ==
  \A i \in 1..(Len(scheduled) - 1) :
    /\ scheduled[i + 1].start >= scheduled[i].start
    /\ scheduled[i + 1].start >= scheduled[i].start + scheduled[i].dur

BackToBackThenGap ==
  /\ Len(scheduled) = 3
  /\ scheduled[2].start = scheduled[1].start + scheduled[1].dur
  /\ scheduled[3].start > scheduled[2].start + scheduled[2].dur

\* C5: stop leaves no buffer scheduled and the cursor at 0, and the first
\* buffer scheduled after it starts at the clock reading of the playback
\* context, not at the cursor stop discarded.
HardInterrupt ==
  [][/\ StopCall => scheduled' = <<>> /\ nextStartTime' = 0
     /\ \A data \in PlayerData :
          PlayChunkCall(data) /\ scheduled = <<>> /\ scheduled' # <<>> =>
            scheduled'[1].start = clock]_vars

RestartedAtNow ==
  /\ discarded.count > 0
  /\ Len(scheduled) = 1
  /\ scheduled[1].at > 0
  /\ scheduled[1].start = scheduled[1].at
  /\ scheduled[1].start < discarded.cursor

\* C6: a message that carries the interrupted signal, handled in state
\* speaking, leaves the state listening and calls stop on the playback
\* pipeline exactly once.
InterruptStopsOnce ==
  [][\A s \in Sessions : \A m \in SessionMessages :
       OnMessage(s, m) /\ m.interrupted /\ status = "speaking" =>
         /\ status' = "listening"
         /\ Count("player.stop", calls') = 1]_vars

\* C7: an error event or a rejected connection attempt for a session that
\* is connecting leaves the state idle, no pipeline running, no input
\* device held and no handle kept.
ConnectFailureClean ==
  [][\A s \in Sessions :
       /\ OnError(s) \/ ConnectReject(s)
       /\ pc[s] = "connecting"
       /\ status = "connecting"
       => /\ status' = "idle"
          /\ sessionRef' = 0
          /\ liveStreams' = {}
          /\ \A k \in Sessions :
               ~(k \in connected' /\ ctxState'[nodeCtx'[k]] = "running")
          /\ Unplayed(scheduled', clock') = <<>>]_vars

\* C8: when the input device is refused after the remote accepted, the
\* call attempt ends: the state returns to idle.
DeviceFailureFatal ==
  [][\A k \in Sessions : GetUserMediaReject(k) => status' = "idle"]_vars

\* C9: every block captured while the state is listening or speaking is
\* appended, once and as captured, to what an open connection was sent.
FramesForwarded ==
  [][emitted' # emitted /\ status \in Connected =>
       \E s \in Sessions :
         /\ conn[s] = "open"
         /\ outbox'[s] = Append(outbox[s], emitted')]_vars

\* C10: whenever the microphone is held or a capture callback can fire,
\* the state is listening or speaking.
CaptureOnlyWhileConnected ==
  (MicHeld \/ \E k \in Sessions : CanFire(k)) => status \in Connected

\* C11: at any moment at most one remote connection is open and at most
\* one capture stream holds the input device, whatever the interleaving of
\* startSession and stopSession.
SessionExclusive ==
  /\ Cardinality({s \in Sessions : conn[s] = "open"}) <= 1
  /\ Cardinality(liveStreams) <= 1

\* C12: a connection attempt is made only by a startSession invocation
\* whose ringing delay has just elapsed, and the call state enters
\* connecting only from ringing.
RingingNeverSkipped ==
  [][/\ \A s \in Sessions :
          conn[s] = "none" /\ conn'[s] # "none" =>
            pc[s] = "ringing" /\ pc'[s] = "connecting"
     /\ status # "connecting" /\ status' = "connecting" =>
          status = "ringing"]_vars

\* C13: right after every scheduling step of playChunk the cursor is not
\* behind the clock of the playback context.
CursorNotBehind ==
  [][\A data \in PlayerData :
       PlayChunkCall(data) /\ ~Undecodable(data) =>
         nextStartTime' >= clock']_vars

\* A chunk was queued behind one still playing: the cursor runs ahead.
QueuedAhead ==
  /\ calls = <<"player.playChunk">>
  /\ Len(scheduled) >= 2
  /\ scheduled[Len(scheduled)].at > 0
  /\ scheduled[Len(scheduled)].start > scheduled[Len(scheduled)].at
  /\ nextStartTime > clock

\* C14: when playChunk is called with the cursor behind the clock, the
\* chunk starts at the clock reading and the cursor ends at that reading
\* plus the chunk's duration.
GapRecovery ==
  [][\A data \in PlayerData :
       PlayChunkCall(data) /\ ~Undecodable(data) /\ nextStartTime < clock =>
         /\ scheduled'[Len(scheduled')].start = clock
         /\ nextStartTime' = clock + SampleCount(data)]_vars

\* A two-sample chunk was scheduled after the queue had run dry.
RecoveredFromGap ==
  /\ calls = <<"player.playChunk">>
  /\ Len(scheduled) = 2
  /\ scheduled[1].start + scheduled[1].dur < scheduled[2].at
  /\ scheduled[2].start = scheduled[2].at
  /\ scheduled[2].dur = 2
  /\ nextStartTime = scheduled[2].at + 2

\* C15: a text fragment that starts with a language tag [LANG:XX] is
\* displayed, and handed to the sentiment analysis, with the tag removed.
HasLangTag(t) ==
  /\ Len(t) >= 9
  /\ SubSeq(t, 1, 6) = <<"[", "L", "A", "N", "G", ":">>
  /\ t[9] = "]"
WithoutTag(t) == trim(SubSeq(t, 10, Len(t)))

LangTagStripped ==
  [][\A s \in Sessions : \A m \in TextMessages :
       /\ OnMessage(s, m)
       /\ Len(m.parts) = 1
       /\ m.parts[1].data = NoData
       /\ HasLangTag(trim(m.parts[1].text))
       => /\ transcript' = WithoutTag(trim(m.parts[1].text))
          /\ requests' # <<>>
          /\ requests'[Len(requests')] = transcript']_vars

\* C19: with any number of sentiment requests in flight, settling in any
\* order, the sentiment right after a request settles with a label is
\* that label.
LastCompletedWins ==
  [][\A i \in 1..MaxRequests : \A r \in GenerateOutcomes \cup FetchOutcomes :
       (AnalyzeSettled(i, r) \/ FetchSettled(i, r)) /\ ~Failed(r) =>
         sentiment' = r.label]_vars

\* A request issued later settled with a label while an earlier one is
\* still in flight.
OvertakingResultShown ==
  /\ settled.any /\ settled.overtook /\ ~settled.failed
  /\ Len(requests) = MaxRequests - 1
  /\ sentiment = "Negative"

\* C20: a sentiment request that fails (the call rejects, the body does
\* not parse, or there is no label) changes nothing but the request itself
\* and the analyzing flag: the sentiment, the call state, the connections
\* and both pipelines stay as they were.
FailedSentimentContained ==
  [][\A i \in 1..MaxRequests : \A r \in GenerateOutcomes \cup FetchOutcomes :
       (AnalyzeSettled(i, r) \/ FetchSettled(i, r)) /\ Failed(r) =>
         UNCHANGED <<sentiment, status, isConnected, isRecording, transcript,
                     sessionRef, sessVars, capVars, outVars, playVars>>]_vars

\* A request failed during a call that shows an earlier result, with
\* capture running and audio scheduled.
FailedWhileSpeaking ==
  /\ settled.any /\ settled.failed
  /\ sentiment = "Positive"
  /\ status = "speaking"
  /\ MicHeld
  /\ scheduled # <<>>
  /\ \E s \in Sessions : conn[s] = "open"

\* C16: a sample of [-1, 1], encoded and decoded, comes back within
\* 1/32768 of its value.
Abs(x) == IF x < 0 THEN 0 - x ELSE x
InUnitRange(n) == Abs(n) <= SampleDenominator
RoundTripError == Abs(DecodeScale * sample - decoded[1] * SampleDenominator)

RoundTripWithinOneStep ==
  decoded # <<>> /\ InUnitRange(sample) =>
    RoundTripError <= SampleDenominator

\* C16 as amended: the sample comes back within less than 2/32768 of its
\* value, and a sample that is not positive within less than 1/32768.
RoundTripWithinTwoSteps ==
  decoded # <<>> /\ InUnitRange(sample) =>
    /\ RoundTripError < 2 * SampleDenominator
    /\ sample <= 0 => RoundTripError < SampleDenominator

\* A positive sample just below full scale came back more than 1/32768
\* too small.
RoundTripLostMoreThanOneStep ==
  /\ decoded # <<>>
  /\ 0 < sample /\ sample < SampleDenominator
  /\ RoundTripError > SampleDenominator
  /\ decoded[1] * SampleDenominator < DecodeScale * sample

\* C17: stop of the capture pipeline, called before start or again after
\* a stop, does not fail and leaves what one stop leaves: the stream of
\* the last start released, its node unable to fire, its context closed,
\* and nothing for a further stop to change.
StopIdempotent ==
  [][ProcessorStopCall =>
       /\ apStream \notin liveStreams'
       /\ apProcessor \notin connected'
       /\ apContext # 0 => ctxState'[apContext] = "closed"
       /\ processorStop(TheCapture)' = TheCapture'
       /\ /\ apContext = 0 \/ ctxState[apContext] = "closed"
          /\ apStream \notin liveStreams
          /\ apProcessor \notin connected
          => UNCHANGED <<capVars, outVars>>]_vars

\* stop was called on a pipeline that had captured a block and was
\* stopped already.
StoppedTwice ==
  /\ calls = <<"processor.stop", "close.rejected">>
  /\ emitted > 0
  /\ startPc[apStream] = "done"
  /\ liveStreams = {}
  /\ connected = {}

\* C18: getVolume of the capture pipeline returns 0 whenever it is called
\* before start or after stop, that is, while the pipeline has no context
\* or a closed one.
VolumeZeroWhenStopped ==
  [][GetVolumeCall /\ (apContext = 0 \/ ctxState[apContext] = "closed") =>
       volume' = 0]_vars

\* C21: when playChunk fails on a fragment, nothing is scheduled for it,
\* the cursor and the buffers already scheduled stay as they are and the
\* call state does not become idle; a well-formed fragment is scheduled
\* whatever failed before it.
Throws(m) == Base64Audio(m) # NoData /\ Undecodable(Base64Audio(m))
Plays(m) == Base64Audio(m) # NoData /\ ~Undecodable(Base64Audio(m))

MalformedAudioDropped ==
  [][\A s \in Sessions : \A m \in SessionMessages :
       OnMessage(s, m) /\ audioPlayerRef =>
         /\ Throws(m) =>
              /\ UNCHANGED <<scheduled, nextStartTime, clock, discarded>>
              /\ status' # "idle"
         /\ Plays(m) /\ ~m.interrupted =>
              /\ Len(scheduled') = Len(scheduled) + 1
              /\ scheduled'[Len(scheduled')].dur = SampleCount(Base64Audio(m))]_vars

\* A fragment has just failed: the state is speaking although nothing is
\* scheduled.
FragmentDropped ==
  /\ audioPlayerRef
  /\ calls = <<"player.playChunk">>
  /\ status = "speaking"
  /\ scheduled = <<>>
  /\ nextStartTime = 0
  /\ \E s \in Sessions : conn[s] = "open"

\* C22: once stopSession has put the state back to idle while the ringing
\* delay of an invocation is pending, that invocation makes no connection
\* attempt and the state does not go to connecting or listening: it stays
\* idle until startSession is invoked again.
RingingCancelable ==
  [][\A s \in Sessions :
       pc[s] = "ringing" /\ status = "idle" =>
         /\ conn'[s] = "none"
         /\ status' \in {"idle", "ringing"}]_vars

\* C23: every audio fragment an inbound message carries is passed to
\* playChunk, once and in part order; none is skipped.
AudioFragments(m) == SelectSeq(m.parts, LAMBDA p : p.data # NoData)

EveryFragmentPlayed ==
  [][\A s \in Sessions : \A m \in TextMessages :
       OnMessage(s, m) =>
         Count("player.playChunk", calls') = Len(AudioFragments(m))]_vars

\* C24: a text shorter than 5 characters issues no sentiment request and
\* leaves the sentiment and the analyzing flag as they are; every request
\* in flight is for a text of at least 5 characters.
OnlyShort(m) ==
  /\ Shown(m.parts) # <<>>
  /\ \A i \in DOMAIN m.parts : Len(trim(m.parts[i].text)) < 5

ShortTextNotAnalyzed ==
  [][/\ \A s \in Sessions : \A m \in TextMessages :
          OnMessage(s, m) /\ OnlyShort(m) =>
            UNCHANGED <<requests, isAnalyzing, sentiment>>
     /\ \A i \in DOMAIN requests' : Len(requests'[i]) >= 5]_vars

\* A short text is displayed and no request was ever issued.
ShortTextShown ==
  /\ transcript = TextShort
  /\ requests = <<>>
  /\ ~isAnalyzing
  /\ ~settled.any
  /\ sentiment = "null"

\* C25: the sentiment is always null or one of the labels Positive,
\* Negative and Neutral.
SentimentLabelKnown ==
  sentiment \in {"null", "Positive", "Negative", "Neutral"}

\* C26: a message that carries turn complete, handled in state listening
\* or speaking, leaves the state listening; the turn-complete event by
\* itself leaves the capture pipeline, the connection handle and the
\* playback schedule as they are.
TurnCompleteEffect ==
  [][\A s \in Sessions : \A m \in SessionMessages :
       OnMessage(s, m) /\ m.turnComplete /\ status \in Connected =>
         /\ status' = "listening"
         /\ TurnCompleteOnly(m) =>
              UNCHANGED <<capVars, outVars, sessionRef, conn, scheduled,
                          nextStartTime>>]_vars

\* C27: the integer written for a sample lies in -32768..32767 and has
\* not wrapped: -32768 for a sample of -1 or less, 32767 for a sample of 1
\* or more, 0 for 0, and never of the opposite sign.
EncodingInRange ==
  pcm # NoPcm =>
    LET v == Int16Of(pcm)
    IN  /\ v \in (0 - 32768)..32767
        /\ sample <= 0 - SampleDenominator => v = 0 - 32768
        /\ sample >= SampleDenominator => v = 32767
        /\ sample = 0 => v = 0
        /\ sample > 0 => v >= 0
        /\ sample < 0 => v <= 0

\* A sample above full scale was written as 32767.
ClampedToFullScale ==
  /\ pcm = <<255, 127>>
  /\ sample > SampleDenominator

\* C28: isConnected is true exactly when the call state is listening or
\* speaking.
ConnectedFlagConsistent == isConnected <=> status \in Connected

\* C29: when a message carries text that is not empty after trimming, and
\* the call state when the message is handled is listening or the message
\* has no audio fragment, the transcript becomes the (last) trimmed text
\* and a sentiment request is issued for each text long enough.
TranscriptFollowsCurrentState ==
  [][\A s \in Sessions : \A m \in TextMessages :
       /\ OnMessage(s, m)
       /\ Shown(m.parts) # <<>>
       /\ status = "listening" \/ Base64Audio(m) = NoData
       => /\ transcript' = Shown(m.parts)[Len(Shown(m.parts))]
          /\ requests' =
               requests \o SelectSeq(Shown(m.parts), LAMBDA t : Len(t) >= 5)]_vars

\* C30: a message that carries both an audio fragment and the interrupted
\* signal leaves nothing scheduled, the cursor at 0 and the state
\* listening.
AudioWithInterruptStopped ==
  [][\A s \in Sessions : \A m \in SessionMessages :
       OnMessage(s, m) /\ Base64Audio(m) # NoData /\ m.interrupted =>
         /\ scheduled' = <<>>
         /\ nextStartTime' = 0
         /\ status' = "listening"]_vars


====
